---- MODULE Spec2Model ----
(***************************************************************************)
(* A model of src/add_docstring_to_cpython.py: the function                *)
(* add_docstrings_to_mojo_file(mojo_filename, reference_filename,          *)
(* output_filename) and the script's invocation of it; and of the scripts  *)
(* stdlib/scripts/check-file-is-empty.py, stdlib/scripts/check-docstrings.py, *)
(* examples/check_mod.py and stdlib/snaker.py.  Each script has its own    *)
(* specification; a specification leaves the other scripts' variables at   *)
(* rest.                                                                   *)
(*                                                                         *)
(* Files hold text: a file's content is a string, a line is a string that  *)
(* ends with "\n" (except possibly the last line of a file), and the two   *)
(* regular expressions of the source are evaluated character by character. *)
(***************************************************************************)
EXTENDS Integers, Sequences, FiniteSets, TLC

VARIABLES
    fs,                 \* the file system: path -> [exists, content]
    pc,                 \* where the call stands
    mojo_filename,      \* the three arguments of the call
    reference_filename,
    output_filename,
    open,               \* the file handles that are open
    ref_iter,           \* the lines `for line in ref_file` has yet to yield
    reference_mapping,  \* the dict: a function from symbol to URL
    lines,              \* mojo_file.readlines()
    i,                  \* how many of `lines` the loop has processed
    updated_lines,      \* the list the loop builds
    inserted,           \* the positions of updated_lines the loop's second append filled
    err,                \* the exception that ended the call, or "none"
    calls,              \* how many calls have started
    fs0,                \* the file system when the current call started
    ops,                \* the open/close events of the current call, in order
    \* the other scripts
    argv,               \* sys.argv[1:]
    name,               \* the parameter of install_if_missing and of camel_to_snake
    env,                \* what the interpreter finds: importable modules, PATH
    status,             \* how the script or function ended, or "running"
    printed,            \* what was printed, in order
    content,            \* the local `content` of check-file-is-empty and convert_file
    files_with_docstrings_issues,
    python,             \* the local `python` of install_if_missing
    launched,           \* the subprocesses started, in order
    visited,            \* the files os.walk has yielded so far
    snake               \* the results of camel_to_snake applied to name, then to its result

vars == <<fs, pc, mojo_filename, reference_filename, output_filename, open,
          ref_iter, reference_mapping, lines, i, updated_lines, inserted, err,
          calls, fs0, ops, argv, name, env, status, printed, content,
          files_with_docstrings_issues, python, launched, visited, snake>>

\* The variables of the scripts other than add_docstring_to_cpython.py.
scripts == <<argv, name, env, status, printed, content,
             files_with_docstrings_issues, python, launched, visited, snake>>

ScriptsAtRest ==
    /\ argv = <<>>
    /\ name = ""
    /\ env = <<>>
    /\ status = "none"
    /\ printed = <<>>
    /\ content = ""
    /\ files_with_docstrings_issues = <<>>
    /\ python = ""
    /\ launched = <<>>
    /\ visited = {}
    /\ snake = <<>>

(***************************************************************************)
(* Bounds of the model.                                                    *)
(***************************************************************************)
MaxLines == 2       \* lines of the source file before the first call
MaxRefLines == 2    \* lines of the reference file
MaxCalls == 2       \* runs of the rewriter, each on the previous run's output

(***************************************************************************)
(* Characters and strings.                                                 *)
(***************************************************************************)
\* Python's \w for the ASCII characters: [a-zA-Z0-9_].
WordChars ==
    {"a", "b", "c", "d", "e", "f", "g", "h", "i", "j", "k", "l", "m",
     "n", "o", "p", "q", "r", "s", "t", "u", "v", "w", "x", "y", "z",
     "A", "B", "C", "D", "E", "F", "G", "H", "I", "J", "K", "L", "M",
     "N", "O", "P", "Q", "R", "S", "T", "U", "V", "W", "X", "Y", "Z",
     "0", "1", "2", "3", "4", "5", "6", "7", "8", "9", "_"}

\* Python's \s for the ASCII characters.
SpaceChars == {" ", "\t", "\n", "\r", "\f"}

NL == "\n"

Ch(s, k) == SubSeq(s, k, k)

StartsAt(s, k, p) == k + Len(p) - 1 <= Len(s) /\ SubSeq(s, k, k + Len(p) - 1) = p

RECURSIVE RunEnd(_, _, _)
\* The last index of the longest run of characters of C that starts at k
\* (k - 1 when the character at k is not in C): what a greedy C+ consumes.
RunEnd(s, k, C) ==
    IF k <= Len(s) /\ Ch(s, k) \in C THEN RunEnd(s, k + 1, C) ELSE k - 1

RECURSIVE LineEnd(_, _)
\* The index of the first "\n" at or after k, or Len(s) when there is none.
LineEnd(s, k) ==
    IF k >= Len(s) \/ Ch(s, k) = NL THEN k ELSE LineEnd(s, k + 1)

RECURSIVE JoinLines(_)
\* file.writelines(seq): the strings one after the other, nothing added.
JoinLines(seq) == IF seq = <<>> THEN "" ELSE Head(seq) \o JoinLines(Tail(seq))

\* file.readlines() and iteration over a file: each line keeps its "\n";
\* a last line without one is still a line.
SplitLines(text) ==
    LET ends == {k \in 1..Len(text) : Ch(text, k) = NL} \cup {Len(text)}
        cuts == ends \ {0}
        cut(n) == CHOOSE k \in cuts : Cardinality({j \in cuts : j <= k}) = n
    IN [n \in 1..Cardinality(cuts) |->
          SubSeq(text, IF n = 1 THEN 1 ELSE cut(n - 1) + 1, cut(n))]

(***************************************************************************)
(* The reference pattern of line 8: group 1 is the URL prefix, anything,   *)
(* "#c." and a word; then white space; group 2 is a word.                  *)
(***************************************************************************)
UrlPrefix == "https://docs.python.org/3/c-api/"
Anchor == "#c."

\* The positions of "#c." at which the rest of the pattern matches: "#c."
\* there, no newline before it (the dot matches none), then a word, white
\* space, a word.  Each of
\* \w+ and \s+ must take its whole run, or the next item cannot match.
RefAnchors(line) ==
    {a \in (Len(UrlPrefix) + 1)..Len(line) :
        /\ StartsAt(line, a, Anchor)
        /\ LineEnd(line, Len(UrlPrefix) + 1) >= a
        /\ LET w1 == RunEnd(line, a + Len(Anchor), WordChars)
               s1 == RunEnd(line, w1 + 1, SpaceChars)
               w2 == RunEnd(line, s1 + 1, WordChars)
           IN w1 >= a + Len(Anchor) /\ s1 >= w1 + 1 /\ w2 >= s1 + 1}

\* `.*` is greedy: the match uses the last possible "#c.".  0: no match.
RefAnchor(line) ==
    IF ~StartsAt(line, 1, UrlPrefix) THEN 0
    ELSE LET as == RefAnchors(line)
         IN IF as = {} THEN 0 ELSE CHOOSE a \in as : \A b \in as : b <= a

ref_match(line) == RefAnchor(line) # 0

\* match.group(1): the URL.
ref_group1(line) ==
    SubSeq(line, 1, RunEnd(line, RefAnchor(line) + Len(Anchor), WordChars))

\* match.group(2): the symbol.
ref_group2(line) ==
    LET w1 == RunEnd(line, RefAnchor(line) + Len(Anchor), WordChars)
        s1 == RunEnd(line, w1 + 1, SpaceChars)
    IN SubSeq(line, s1 + 1, RunEnd(line, s1 + 1, WordChars))

(***************************************************************************)
(* The header pattern of line 19: four spaces, "fn ", a word (group 1),    *)
(* then the rest of the line (group 2, which matches anything).            *)
(***************************************************************************)
FnPrefix == "    fn "

fn_match(line) ==
    /\ StartsAt(line, 1, FnPrefix)
    /\ RunEnd(line, Len(FnPrefix) + 1, WordChars) >= Len(FnPrefix) + 1

\* fn_match.group(1)
function_name(line) ==
    SubSeq(line, Len(FnPrefix) + 1, RunEnd(line, Len(FnPrefix) + 1, WordChars))

\* Faulty variant: the docstring indented like the header.
docstring_indent4(url) == "    \"\"\"See " \o url \o "\"\"\"\n"

\* f'        """See {url}"""\n'
docstring(url) == "        \"\"\"See " \o url \o "\"\"\"\n"


(***************************************************************************)
(* The bodies of the two loops.                                            *)
(***************************************************************************)
EmptyDict == [k \in {} |-> ""]

\* Faulty variant: the first line that names a symbol wins (setdefault).
ref_update_first(mapping, line) ==
    IF ref_match(line) /\ ref_group2(line) \notin DOMAIN mapping
    THEN [k \in DOMAIN mapping \cup {ref_group2(line)} |->
            IF k = ref_group2(line) THEN ref_group1(line) ELSE mapping[k]]
    ELSE mapping

\* Faulty variant: a symbol named again collects its URLs.
ref_update_accumulate(mapping, line) ==
    IF ref_match(line)
    THEN [k \in DOMAIN mapping \cup {ref_group2(line)} |->
            IF k # ref_group2(line) THEN mapping[k]
            ELSE IF k \in DOMAIN mapping THEN mapping[k] \o " " \o ref_group1(line)
            ELSE ref_group1(line)]
    ELSE mapping

\* Lines 8-10: one line of the reference file against the dict.
ref_update(mapping, line) ==
    IF ref_match(line)
    THEN [k \in DOMAIN mapping \cup {ref_group2(line)} |->
            IF k = ref_group2(line) THEN ref_group1(line) ELSE mapping[k]]
    ELSE mapping

\* Faulty variant: the docstring goes above the header.
annotate_before(mapping, line) ==
    IF fn_match(line) /\ function_name(line) \in DOMAIN mapping
    THEN <<docstring(mapping[function_name(line)]), line>>
    ELSE <<line>>

\* Faulty variant: the docstring takes the header's place.
annotate_replace(mapping, line) ==
    IF fn_match(line) /\ function_name(line) \in DOMAIN mapping
    THEN <<docstring(mapping[function_name(line)])>>
    ELSE <<line>>

\* Faulty variant: no membership test, the URL looked up with dict.get.
annotate_get(mapping, line) ==
    IF fn_match(line)
    THEN <<line, docstring(IF function_name(line) \in DOMAIN mapping
                           THEN mapping[function_name(line)] ELSE "None")>>
    ELSE <<line>>

\* Faulty variant: a key that starts the header's name counts as its key.
annotate_prefix(mapping, line) ==
    LET keys == {k \in DOMAIN mapping : StartsAt(function_name(line), 1, k)}
    IN IF fn_match(line) /\ keys # {}
       THEN <<line, docstring(mapping[CHOOSE k \in keys : TRUE])>>
       ELSE <<line>>

\* Faulty variant: the pattern allows any white space before fn.
annotate_any_indent(mapping, line) ==
    LET l == FnPrefix \o SubSeq(line, RunEnd(line, 1, SpaceChars) + 1 + Len("fn "), Len(line))
    IN IF /\ StartsAt(line, RunEnd(line, 1, SpaceChars) + 1, "fn ")
          /\ fn_match(l)
          /\ function_name(l) \in DOMAIN mapping
       THEN <<line, docstring(mapping[function_name(l)])>>
       ELSE <<line>>

\* Lines 18-27: what one line of the source appends to updated_lines.
annotate(mapping, line) ==
    IF fn_match(line) /\ function_name(line) \in DOMAIN mapping
    THEN <<line, docstring(mapping[function_name(line)])>>
    ELSE <<line>>

RECURSIVE parse(_, _)
\* Lines 7-10 as a whole: the loop over the lines rl, started on a dict.
parse(mapping, rl) ==
    IF rl = <<>> THEN mapping ELSE parse(ref_update(mapping, Head(rl)), Tail(rl))

RECURSIVE rewrite(_, _)
\* Lines 16-27 as a whole: the loop over the lines ls with the dict built.
rewrite(mapping, ls) ==
    IF ls = <<>> THEN <<>> ELSE annotate(mapping, Head(ls)) \o rewrite(mapping, Tail(ls))

(***************************************************************************)
(* The files the call may find.                                            *)
(***************************************************************************)
Paths == {"c-abi.txt", "_cpython.mojo", "out.mojo"}

NoFile == [exists |-> FALSE, content |-> ""]
File(text) == [exists |-> TRUE, content |-> text]

StrUrl == "https://docs.python.org/3/c-api/object.html#c.PyObject_Str"
StrUrl2 == "https://docs.python.org/3/c-api/unicode.html#c.PyUnicode_Str"

RefCorpus ==
    {StrUrl \o " Str\n",        \* the example of the specification
     StrUrl2 \o " Str\n",       \* the same symbol with another URL
     StrUrl \o "\n"}            \* a URL without a symbol: no match

SrcCorpus ==
    {"    fn Str(self):\n",          \* a header
     "    fn Str_2(self):\n",        \* a header with a name no reference line has
     "        fn Str(self):\n"}      \* not a header: eight spaces

\* A last line that lacks its "\n".
LastCorpus == {"    fn Str(self):"}

BoundedSeq(S, n) == UNION {[1..k -> S] : k \in 0..n}

RefTexts == {JoinLines(q) : q \in BoundedSeq(RefCorpus, MaxRefLines)}

\* A source text is up to MaxLines lines; its last line may lack the "\n".
SrcTexts ==
    {JoinLines(q) : q \in BoundedSeq(SrcCorpus, MaxLines)}
        \cup {JoinLines(q) \o l : q \in BoundedSeq(SrcCorpus, MaxLines - 1),
                                  l \in LastCorpus}

(***************************************************************************)
(* The state at the script's call (lines 34-37).                           *)
(***************************************************************************)
Init ==
    /\ \E ref \in {NoFile} \cup {File(t) : t \in RefTexts} :
       \E src \in {NoFile} \cup {File(t) : t \in SrcTexts} :
          fs = [p \in Paths |->
                  IF p = "c-abi.txt" THEN ref
                  ELSE IF p = "_cpython.mojo" THEN src ELSE NoFile]
    /\ mojo_filename = "_cpython.mojo"
    /\ reference_filename = "c-abi.txt"
    /\ output_filename \in {"_cpython.mojo", "out.mojo"}
    /\ pc = "open_ref"
    /\ open = {}
    /\ ref_iter = <<>>
    /\ reference_mapping = EmptyDict
    /\ lines = <<>>
    /\ i = 0
    /\ updated_lines = <<>>
    /\ inserted = {}
    /\ err = "none"
    /\ calls = 1
    /\ fs0 = fs
    /\ ops = <<>>
    /\ ScriptsAtRest

(***************************************************************************)
(* The script's own call (lines 34-37: the output path is the source path) *)
(* on sources that show the header pattern's edges.                        *)
(***************************************************************************)
HeaderCorpus ==
    {"    fn Str(self):\n",          \* a header
     "fn Str(self):\n",              \* fn at column 0
     "        fn Str(self):\n",      \* fn after eight spaces
     "\tfn Str(self):\n",            \* fn after a tab
     "    fn (self):\n",             \* four spaces and fn, but no name
     "    fn  Str(self):\n",         \* two spaces after fn
     "x = \"\"\"\n"}                 \* the start of a string that runs on

HeaderTexts == {JoinLines(q) : q \in BoundedSeq(HeaderCorpus, MaxLines)}

InitHeaders ==
    /\ \E ref \in {NoFile, File(StrUrl \o " Str\n")} :
       \E src \in {NoFile} \cup {File(t) : t \in HeaderTexts} :
          fs = [p \in Paths |->
                  IF p = "c-abi.txt" THEN ref
                  ELSE IF p = "_cpython.mojo" THEN src ELSE NoFile]
    /\ mojo_filename = "_cpython.mojo"
    /\ reference_filename = "c-abi.txt"
    /\ output_filename = "_cpython.mojo"
    /\ pc = "open_ref"
    /\ open = {}
    /\ ref_iter = <<>>
    /\ reference_mapping = EmptyDict
    /\ lines = <<>>
    /\ i = 0
    /\ updated_lines = <<>>
    /\ inserted = {}
    /\ err = "none"
    /\ calls = 1
    /\ fs0 = fs
    /\ ops = <<>>
    /\ ScriptsAtRest

args == <<mojo_filename, reference_filename, output_filename>>
locals == <<ref_iter, reference_mapping, lines, i, updated_lines, inserted>>

\* An exception leaves the function: its locals are gone.
Raise(e) ==
    /\ err' = e
    /\ pc' = "failed"
    /\ ref_iter' = <<>>
    /\ reference_mapping' = EmptyDict
    /\ lines' = <<>>
    /\ i' = 0
    /\ updated_lines' = <<>>
    /\ inserted' = {}

Opened(h) == open' = open \cup {h} /\ ops' = Append(ops, <<"open", h>>)
Closed(h) == open' = open \ {h} /\ ops' = Append(ops, <<"close", h>>)

(***************************************************************************)
(* Lines 6-10: the reference file.                                         *)
(***************************************************************************)
OpenRef ==
    /\ pc = "open_ref"
    /\ fs[reference_filename].exists
    /\ Opened("ref_file")
    /\ ref_iter' = SplitLines(fs[reference_filename].content)
    /\ pc' = "ref_loop"
    /\ UNCHANGED <<fs, args, reference_mapping, lines, i, updated_lines,
                   inserted, err, calls, fs0>>
    /\ UNCHANGED scripts

\* Faulty variant: the output file was opened (and emptied) before the
\* reference file was looked for.
OpenRefFail_truncates ==
    /\ pc = "open_ref"
    /\ ~fs[reference_filename].exists
    /\ fs' = [fs EXCEPT ![output_filename] = File("")]
    /\ Raise("FileNotFoundError")
    /\ UNCHANGED <<args, open, calls, fs0, ops>>
    /\ UNCHANGED scripts

OpenRefFail ==
    /\ pc = "open_ref"
    /\ ~fs[reference_filename].exists
    /\ Raise("FileNotFoundError")
    /\ UNCHANGED <<fs, args, open, calls, fs0, ops>>
    /\ UNCHANGED scripts

\* Faulty variant: no `if match`; a line that does not match raises.
RefLoop_strict ==
    /\ pc = "ref_loop"
    /\ ref_iter # <<>>
    /\ IF ref_match(Head(ref_iter))
       THEN /\ reference_mapping' = ref_update(reference_mapping, Head(ref_iter))
            /\ ref_iter' = Tail(ref_iter)
            /\ UNCHANGED <<pc, open, lines, i, updated_lines, inserted, err, ops>>
       ELSE Closed("ref_file") /\ Raise("AttributeError")
    /\ UNCHANGED <<fs, args, calls, fs0>>
    /\ UNCHANGED scripts

RefLoop ==
    /\ pc = "ref_loop"
    /\ ref_iter # <<>>
    /\ reference_mapping' = ref_update(reference_mapping, Head(ref_iter))
    /\ ref_iter' = Tail(ref_iter)
    /\ UNCHANGED <<fs, pc, args, open, lines, i, updated_lines, inserted, err,
                   calls, fs0, ops>>
    /\ UNCHANGED scripts

\* Faulty variant: no with statement; the failure leaves ref_file open.
RefReadError_leak ==
    /\ pc = "ref_loop"
    /\ ref_iter # <<>>
    /\ Raise("OSError")
    /\ UNCHANGED <<fs, args, open, calls, fs0, ops>>
    /\ UNCHANGED scripts

\* Reading fails while ref_file is open: the with statement closes it.
RefReadError ==
    /\ pc = "ref_loop"
    /\ ref_iter # <<>>
    /\ Closed("ref_file")
    /\ Raise("OSError")
    /\ UNCHANGED <<fs, args, calls, fs0>>
    /\ UNCHANGED scripts

CloseRef ==
    /\ pc = "ref_loop"
    /\ ref_iter = <<>>
    /\ Closed("ref_file")
    /\ pc' = "open_mojo"
    /\ UNCHANGED <<fs, args, locals, err, calls, fs0>>
    /\ UNCHANGED scripts

(***************************************************************************)
(* Lines 13-14: the source file.                                           *)
(***************************************************************************)
\* Faulty variant: the output file is opened for writing in the same with
\* statement as the source file, before the source is read.
OpenMojo_truncates ==
    /\ pc = "open_mojo"
    /\ fs[mojo_filename].exists
    /\ fs' = [fs EXCEPT ![output_filename] = File("")]
    /\ Opened("mojo_file")
    /\ pc' = "readlines"
    /\ UNCHANGED <<args, locals, err, calls, fs0>>
    /\ UNCHANGED scripts

OpenMojo ==
    /\ pc = "open_mojo"
    /\ fs[mojo_filename].exists
    /\ Opened("mojo_file")
    /\ pc' = "readlines"
    /\ UNCHANGED <<fs, args, locals, err, calls, fs0>>
    /\ UNCHANGED scripts

OpenMojoFail ==
    /\ pc = "open_mojo"
    /\ ~fs[mojo_filename].exists
    /\ Raise("FileNotFoundError")
    /\ UNCHANGED <<fs, args, open, calls, fs0, ops>>
    /\ UNCHANGED scripts

ReadLines ==
    /\ pc = "readlines"
    /\ lines' = SplitLines(fs[mojo_filename].content)
    /\ pc' = "close_mojo"
    /\ UNCHANGED <<fs, args, open, ref_iter, reference_mapping, i,
                   updated_lines, inserted, err, calls, fs0, ops>>
    /\ UNCHANGED scripts

ReadLinesError ==
    /\ pc = "readlines"
    /\ Closed("mojo_file")
    /\ Raise("OSError")
    /\ UNCHANGED <<fs, args, calls, fs0>>
    /\ UNCHANGED scripts

CloseMojo ==
    /\ pc = "close_mojo"
    /\ Closed("mojo_file")
    /\ pc' = "loop"
    /\ UNCHANGED <<fs, args, locals, err, calls, fs0>>
    /\ UNCHANGED scripts

(***************************************************************************)
(* Lines 16-27: the loop over the lines.                                   *)
(***************************************************************************)
\* Faulty variant: a docstring that is already in the list is not added again.
Loop_once ==
    /\ pc = "loop"
    /\ i < Len(lines)
    /\ LET new == annotate(reference_mapping, lines[i + 1])
           seen == Len(new) = 2 /\ \E p \in 1..Len(updated_lines) : updated_lines[p] = new[2]
       IN /\ updated_lines' = updated_lines \o (IF seen THEN <<new[1]>> ELSE new)
          /\ inserted' = IF Len(new) = 2 /\ ~seen
                         THEN inserted \cup {Len(updated_lines) + 2} ELSE inserted
    /\ i' = i + 1
    /\ UNCHANGED <<fs, pc, args, open, ref_iter, reference_mapping, lines, err,
                   calls, fs0, ops>>
    /\ UNCHANGED scripts


Loop ==
    /\ pc = "loop"
    /\ i < Len(lines)
    /\ updated_lines' = updated_lines \o annotate(reference_mapping, lines[i + 1])
    \* line 18 appends the line itself; whatever follows it is inserted
    /\ inserted' = inserted \cup
          {Len(updated_lines) + k :
              k \in 2..Len(annotate(reference_mapping, lines[i + 1]))}
    /\ i' = i + 1
    /\ UNCHANGED <<fs, pc, args, open, ref_iter, reference_mapping, lines, err,
                   calls, fs0, ops>>
    /\ UNCHANGED scripts

(***************************************************************************)
(* Lines 30-31: the output file.                                           *)
(***************************************************************************)
\* open(output_filename, 'w') creates the file or empties it.
OpenOut ==
    /\ pc = "loop"
    /\ i = Len(lines)
    /\ fs' = [fs EXCEPT ![output_filename] = File("")]
    /\ Opened("output_file")
    /\ pc' = "writelines"
    /\ UNCHANGED <<args, locals, err, calls, fs0>>
    /\ UNCHANGED scripts

\* The output path cannot be written (permissions, a missing directory).
OpenOutFail ==
    /\ pc = "loop"
    /\ i = Len(lines)
    /\ Raise("PermissionError")
    /\ UNCHANGED <<fs, args, open, calls, fs0, ops>>
    /\ UNCHANGED scripts

WriteLines ==
    /\ pc = "writelines"
    /\ fs' = [fs EXCEPT ![output_filename] = File(JoinLines(updated_lines))]
    /\ pc' = "close_out"
    /\ UNCHANGED <<args, open, locals, err, calls, fs0, ops>>
    /\ UNCHANGED scripts

\* Writing fails part way (a full disk): some of the lines reached the file.
WriteLinesError ==
    /\ pc = "writelines"
    /\ \E k \in 0..(Len(updated_lines) - 1) :
          fs' = [fs EXCEPT ![output_filename] =
                    File(JoinLines(SubSeq(updated_lines, 1, k)))]
    /\ Closed("output_file")
    /\ Raise("OSError")
    /\ UNCHANGED <<args, calls, fs0>>
    /\ UNCHANGED scripts

CloseOut ==
    /\ pc = "close_out"
    /\ Closed("output_file")
    /\ pc' = "done"
    /\ UNCHANGED <<fs, args, locals, err, calls, fs0>>
    /\ UNCHANGED scripts

(***************************************************************************)
(* The rewriter is run again, in place, on the file it wrote.              *)
(***************************************************************************)
Rerun ==
    /\ pc = "done"
    /\ calls < MaxCalls
    /\ calls' = calls + 1
    /\ mojo_filename' = output_filename
    /\ UNCHANGED <<reference_filename, output_filename>>
    /\ pc' = "open_ref"
    /\ ref_iter' = <<>>
    /\ reference_mapping' = EmptyDict
    /\ lines' = <<>>
    /\ i' = 0
    /\ updated_lines' = <<>>
    /\ inserted' = {}
    /\ fs0' = fs
    /\ ops' = <<>>
    /\ UNCHANGED <<fs, open, err>>
    /\ UNCHANGED scripts

Next ==
    \/ OpenRef \/ OpenRefFail \/ RefLoop \/ RefReadError \/ CloseRef
    \/ OpenMojo \/ OpenMojoFail \/ ReadLines \/ ReadLinesError \/ CloseMojo
    \/ Loop
    \/ OpenOut \/ OpenOutFail \/ WriteLines \/ WriteLinesError \/ CloseOut
    \/ Rerun

SpecHeaders == InitHeaders /\ [][Next]_vars

Spec == Init /\ [][Next]_vars


(***************************************************************************)
(* Vocabulary of the properties.                                           *)
(***************************************************************************)
\* The loop over the lines has started.
InLoop == pc \in {"loop", "writelines", "close_out", "done"}

\* The loop over the lines has run to its end.
LoopDone == (pc = "loop" /\ i = Len(lines)) \/ pc \in {"writelines", "close_out", "done"}

\* writelines has returned.
Written == pc \in {"close_out", "done"}

\* The line is a definition header whose name is a key of the dict.
Matched(line) == fn_match(line) /\ function_name(line) \in DOMAIN reference_mapping

\* The positions of updated_lines that hold the lines of the source.
Kept == {p \in 1..Len(updated_lines) : p \notin inserted}

\* The position in updated_lines of the k-th line of the source.
Pos(k) == CHOOSE p \in Kept : Cardinality({q \in Kept : q <= p}) = k

\* updated_lines with the inserted lines deleted.
WithoutInserted == [k \in 1..Cardinality(Kept) |-> updated_lines[Pos(k)]]

\* The lines of the reference file as the call found it.
RefLines == SplitLines(fs0[reference_filename].content)

\* What each line of rl gives the dict: <<symbol, URL>>, or <<>> for a line
\* that does not match.
Entries(rl) ==
    [k \in 1..Len(rl) |->
        IF ref_match(rl[k]) THEN <<ref_group2(rl[k]), ref_group1(rl[k])>> ELSE <<>>]

\* The symbols the entries name.
Symbols(es) == {es[k][1] : k \in {j \in 1..Len(es) : es[j] # <<>>}}

\* The URL of the last entry that names the symbol.
LastUrl(es, sym) ==
    LET ks == {k \in 1..Len(es) : es[k] # <<>> /\ es[k][1] = sym}
    IN es[CHOOSE k \in ks : \A j \in ks : j <= k][2]

(***************************************************************************)
(* C1.  Every inserted line stands right after a definition header whose   *)
(* name is a key of the dict, and every such header is followed by exactly *)
(* one inserted line.                                                      *)
(***************************************************************************)
C1_InsertedFollowsMatchedHeader ==
    InLoop =>
        /\ \A p \in inserted :
              /\ p > 1
              /\ p <= Len(updated_lines)
              /\ p - 1 \notin inserted
              /\ Matched(updated_lines[p - 1])
        /\ \A p \in 1..Len(updated_lines) :
              Matched(updated_lines[p]) =>
                  /\ p \notin inserted
                  /\ p + 1 \in inserted
                  /\ p + 2 \notin inserted

\* Two headers of the source were annotated.
C1_Witness == pc = "done" /\ calls = 1 /\ Cardinality(inserted) = 2

(***************************************************************************)
(* C2.  The rewrite only inserts: the sequence written, with the inserted  *)
(* lines deleted, is the sequence of lines read, and the file written      *)
(* holds the sequence written.                                             *)
(***************************************************************************)
C2_OnlyInserts ==
    /\ LoopDone =>
          /\ WithoutInserted = lines
          /\ JoinLines(lines) = fs0[mojo_filename].content
    /\ Written => fs[output_filename].content = JoinLines(updated_lines)

\* A three-line output: a header, its annotation and another line.
C2_Witness ==
    /\ pc = "done"
    /\ Len(lines) = 2
    /\ Cardinality(inserted) = 1
    /\ Len(updated_lines) = 3

(***************************************************************************)
(* C3.  A second run on the first run's output, with the same reference    *)
(* file, does not annotate again: after it, a definition header that the   *)
(* first run annotated is followed by exactly one annotation line.         *)
(***************************************************************************)
\* How many lines right after position p hold the docstring of p's header.
DocstringsAfter(p) ==
    LET doc == docstring(reference_mapping[function_name(updated_lines[p])])
    IN Cardinality({q \in (p + 1)..Len(updated_lines) :
                       \A r \in (p + 1)..q : updated_lines[r] = doc})

C3_NoDuplicateAnnotation ==
    (calls >= 2 /\ pc = "done") =>
        \A p \in 1..Len(updated_lines) :
            Matched(updated_lines[p]) => DocstringsAfter(p) = 1

(***************************************************************************)
(* C4.  When the reference file or the source file cannot be opened the    *)
(* call fails with a file-access error and the output file is never        *)
(* opened: every file is as the call found it.                             *)
(***************************************************************************)
CannotOpen == ~fs0[reference_filename].exists \/ ~fs0[mojo_filename].exists

C4_NoOutputOnOpenFailure ==
    CannotOpen =>
        /\ fs = fs0
        /\ pc \notin {"loop", "writelines", "close_out", "done"}
        /\ \A k \in 1..Len(ops) : ops[k][2] # "output_file"
        /\ "output_file" \notin open
        /\ pc = "failed" =>
              \/ err = "FileNotFoundError"
              \/ err = "OSError" /\ fs0[reference_filename].exists
        /\ (pc = "failed" /\ err = "FileNotFoundError") => open = {}

\* An in-place call on a source with text, the reference file missing.
C4_Witness ==
    /\ pc = "failed"
    /\ ~fs0[reference_filename].exists
    /\ output_filename = mojo_filename
    /\ fs0[mojo_filename].exists
    /\ fs[mojo_filename].content # ""

(***************************************************************************)
(* C5.  After a definition header whose name is not a key of the dict no   *)
(* line is inserted: the line that follows it in the output is the line    *)
(* that followed it in the source.                                         *)
(***************************************************************************)
C5_UnmappedHeaderUnchanged ==
    LoopDone =>
        \A k \in 1..Len(lines) :
            (fn_match(lines[k]) /\ function_name(lines[k]) \notin DOMAIN reference_mapping) =>
                /\ k <= Cardinality(Kept)
                /\ updated_lines[Pos(k)] = lines[k]
                /\ Pos(k) + 1 \notin inserted
                /\ IF k < Len(lines)
                   THEN /\ Pos(k) + 1 <= Len(updated_lines)
                        /\ updated_lines[Pos(k) + 1] = lines[k + 1]
                   ELSE Pos(k) = Len(updated_lines)

\* A header with an unmapped name follows an annotated header.
C5_Witness ==
    /\ pc = "done"
    /\ Len(lines) = 2
    /\ Matched(lines[1])
    /\ fn_match(lines[2])
    /\ ~Matched(lines[2])
    /\ inserted = {2}

(***************************************************************************)
(* C6.  When no definition header of the source has a name that is a key   *)
(* of the dict, the file written equals the file read.                     *)
(***************************************************************************)
C6_NoMatchNoChange ==
    (Written /\ \A k \in 1..Len(lines) : ~Matched(lines[k])) =>
        /\ updated_lines = lines
        /\ fs[output_filename] = fs0[mojo_filename]

\* The dict has a symbol, the source has a header, and they do not meet.
C6_Witness ==
    /\ pc = "done"
    /\ calls = 1
    /\ DOMAIN reference_mapping # {}
    /\ \E k \in 1..Len(lines) : fn_match(lines[k])
    /\ \A k \in 1..Len(lines) : ~Matched(lines[k])
    /\ output_filename # mojo_filename

(***************************************************************************)
(* C7.  The dict maps each symbol to the URL of the last line of the       *)
(* reference file that names it, and that URL is the one in every          *)
(* annotation of the symbol.                                               *)
(***************************************************************************)
C7_LastOccurrenceWins ==
    \* when the loop over the reference file has ended, and when the call has
    (pc \in {"open_mojo", "done"}) =>
        LET es == Entries(RefLines)
            syms == Symbols(es)
        IN /\ DOMAIN reference_mapping = syms
           /\ \A sym \in syms : reference_mapping[sym] = LastUrl(es, sym)
           /\ \A p \in inserted :
                 (p > 1 /\ fn_match(updated_lines[p - 1])
                        /\ function_name(updated_lines[p - 1]) \in syms) =>
                     updated_lines[p] =
                         docstring(LastUrl(es, function_name(updated_lines[p - 1])))

\* Two lines of the reference file name one symbol with different URLs,
\* and a header of that name was annotated.
C7_Witness ==
    /\ pc = "done"
    /\ inserted # {}
    /\ LET es == Entries(RefLines)
       IN \E j, k \in 1..Len(es) :
             /\ j < k
             /\ es[j] # <<>>
             /\ es[k] # <<>>
             /\ es[j][1] = es[k][1]
             /\ es[j][2] # es[k][2]

(***************************************************************************)
(* C8.  A line of the reference file that does not match the pattern       *)
(* leaves the dict as it is and raises nothing: short of a failure to      *)
(* read, the loop goes on to the next line.                                *)
(***************************************************************************)
C8_UnmatchedLineIgnored ==
    [][(/\ pc = "ref_loop"
        /\ ref_iter # <<>>
        /\ ~ref_match(Head(ref_iter))
        /\ err' # "OSError")
          => (/\ reference_mapping' = reference_mapping
              /\ ref_iter' = Tail(ref_iter)
              /\ pc' = "ref_loop"
              /\ err' = "none"
              /\ open' = open)]_vars

\* The loop has passed a line that does not match and kept an entry made
\* before it.
C8_Witness ==
    /\ pc = "ref_loop"
    /\ ref_iter = <<>>
    /\ DOMAIN reference_mapping = {"Str"}
    /\ LET rl == RefLines
       IN Len(rl) = 2 /\ ref_match(rl[1]) /\ ~ref_match(rl[2])

(***************************************************************************)
(* C9.  An inserted line is eight spaces, three double quotes, "See ", the *)
(* URL of the header's name, three double quotes and a newline.            *)
(***************************************************************************)
C9_AnnotationFormat ==
    InLoop =>
        \A p \in inserted :
            (p > 1 /\ p <= Len(updated_lines) /\ Matched(updated_lines[p - 1])) =>
                /\ updated_lines[p] =
                      "        " \o "\"\"\"" \o "See "
                         \o reference_mapping[function_name(updated_lines[p - 1])]
                         \o "\"\"\"" \o NL
                /\ (/\ updated_lines[p - 1] = "    fn Str(self):\n"
                    /\ reference_mapping["Str"] = StrUrl)
                      => updated_lines[p] =
                            "        \"\"\"See https://docs.python.org/3/c-api/object.html#c.PyObject_Str\"\"\"\n"

\* The example of the specification.
C9_Witness ==
    /\ pc = "done"
    /\ RefLines = <<"https://docs.python.org/3/c-api/object.html#c.PyObject_Str Str\n">>
    /\ lines = <<"    fn Str(self):\n">>
    /\ Len(updated_lines) = 2

(***************************************************************************)
(* C10.  The file operations of a call come in one order, with at most one *)
(* handle open at a time: the reference file is opened, read to its end    *)
(* and closed; the source file is opened, read and closed; the lines are   *)
(* processed with no file open; the output file is opened, written and     *)
(* closed.  A handle that was opened is closed when the call ends, however *)
(* it ends.                                                                *)
(***************************************************************************)
FileOrder ==
    <<<<"open", "ref_file">>, <<"close", "ref_file">>,
      <<"open", "mojo_file">>, <<"close", "mojo_file">>,
      <<"open", "output_file">>, <<"close", "output_file">>>>

C10_FileOrder ==
    /\ Cardinality(open) <= 1
    /\ Len(ops) <= Len(FileOrder)
    /\ ops = SubSeq(FileOrder, 1, Len(ops))
    /\ open = IF Len(ops) % 2 = 1 THEN {ops[Len(ops)][2]} ELSE {}
    /\ pc \in {"done", "failed"} => open = {}
    /\ pc = "done" => ops = FileOrder
    /\ pc = "open_mojo" => ref_iter = <<>>
    /\ pc = "loop" => (open = {} /\ Len(ops) = 4)
    /\ InLoop => lines = SplitLines(fs0[mojo_filename].content)

\* Writing failed with the output file open, and the handle was closed.
C10_Witness == pc = "failed" /\ err = "OSError" /\ ops = FileOrder

(***************************************************************************)
(* C11.  Parsing the reference file is idempotent: the dict the call built *)
(* line by line is the dict the lines give when parsed again, and parsing  *)
(* the same lines into the dict already built leaves it as it is.  It is   *)
(* read when the reference file has just been parsed.                      *)
(***************************************************************************)
C11_ParseIdempotent ==
    pc = "open_mojo" =>
        LET rl == RefLines
        IN /\ parse(EmptyDict, rl) = reference_mapping
           /\ parse(reference_mapping, rl) = reference_mapping

\* The second call has parsed a reference file that names a symbol twice.
C11_Witness ==
    /\ pc = "open_mojo"
    /\ calls = 2
    /\ DOMAIN reference_mapping = {"Str"}
    /\ LET rl == RefLines
       IN Len(rl) = 2 /\ ref_match(rl[1]) /\ ref_match(rl[2]) /\ rl[1] # rl[2]

(***************************************************************************)
(* C13.  Every line recognised as a header with a mapped name is annotated,*)
(* whatever it is part of: with k such lines the output has k more lines   *)
(* than the source, one docstring right after each of them.                *)
(***************************************************************************)
C13_EveryOccurrenceAnnotated ==
    LoopDone =>
        LET K == {k \in 1..Len(lines) : Matched(lines[k])}
        IN /\ Len(updated_lines) = Len(lines) + Cardinality(K)
           /\ Cardinality(inserted) = Cardinality(K)
           /\ Cardinality(Kept) = Len(lines)
           /\ \A k \in K :
                 /\ Pos(k) + 1 \in inserted
                 /\ updated_lines[Pos(k) + 1] =
                        docstring(reference_mapping[function_name(lines[k])])

\* A header-shaped line inside a string is annotated.
C13_Witness ==
    /\ pc = "done"
    /\ calls = 1
    /\ lines = <<"x = \"\"\"\n", "    fn Str(self):\n">>
    /\ Len(updated_lines) = 3

(***************************************************************************)
(* C14.  Only a line of exactly four spaces, "fn " and a word character is *)
(* annotated; fn at any other indentation never is, though its name is in  *)
(* the dict; and the docstring is indented by eight spaces whatever the    *)
(* line before it.                                                         *)
(***************************************************************************)
C14_FourSpaceHeadersOnly ==
    InLoop =>
        \A p \in 1..Len(updated_lines) :
            /\ (p + 1 \in inserted) =>
                  /\ p \notin inserted
                  /\ SubSeq(updated_lines[p], 1, 4) = "    "
                  /\ SubSeq(updated_lines[p], 5, 7) = "fn "
                  /\ Len(updated_lines[p]) >= 8
                  /\ Ch(updated_lines[p], 8) \in WordChars
            /\ (p \in inserted) =>
                  /\ SubSeq(updated_lines[p], 1, 8) = "        "
                  /\ Ch(updated_lines[p], 9) = "\""

\* fn Str at a tab and at four spaces: only the second is annotated.
C14_Witness ==
    /\ pc = "done"
    /\ calls = 1
    /\ lines = <<"\tfn Str(self):\n", "    fn Str(self):\n">>
    /\ "Str" \in DOMAIN reference_mapping
    /\ inserted = {3}

(***************************************************************************)
(* C15.  In an in-place rewrite the whole source is read and its handle    *)
(* closed before the file is opened, and so emptied, for writing: what is  *)
(* written is the rewrite of the text the call found, not of anything read *)
(* after the file was emptied.                                             *)
(***************************************************************************)
C15_InPlaceReadsBeforeWriting ==
    (output_filename = mojo_filename) =>
        /\ (pc \in {"readlines", "close_mojo"}) => fs[mojo_filename] = fs0[mojo_filename]
        /\ (pc \in {"writelines", "close_out", "done"}) =>
              /\ "mojo_file" \notin open
              /\ \E j \in 1..Len(ops) :
                    /\ ops[j] = <<"close", "mojo_file">>
                    /\ \A k \in 1..Len(ops) : ops[k] = <<"open", "output_file">> => j < k
              /\ lines = SplitLines(fs0[mojo_filename].content)
        /\ pc = "writelines" => fs[output_filename].content = ""
        /\ Written =>
              fs[output_filename].content =
                  JoinLines(rewrite(reference_mapping,
                                    SplitLines(fs0[mojo_filename].content)))

\* An in-place call that changed the file.
C15_Witness ==
    /\ pc = "done"
    /\ calls = 1
    /\ output_filename = mojo_filename
    /\ inserted # {}
    /\ fs[mojo_filename].content # fs0[mojo_filename].content

(***************************************************************************)
(* The other scripts leave the variables of add_docstring_to_cpython.py    *)
(* at rest.                                                                *)
(***************************************************************************)
rewriter == <<args, locals, calls>>

RewriterAtRest ==
    /\ mojo_filename = ""
    /\ reference_filename = ""
    /\ output_filename = ""
    /\ ref_iter = <<>>
    /\ reference_mapping = EmptyDict
    /\ lines = <<>>
    /\ i = 0
    /\ updated_lines = <<>>
    /\ inserted = {}
    /\ calls = 0

RECURSIVE StringsOf(_, _)
\* The strings of at most n characters of C.
StringsOf(C, n) ==
    IF n = 0 THEN {""}
    ELSE LET S == StringsOf(C, n - 1) IN S \cup {s \o c : s \in S, c \in C}

(***************************************************************************)
(* stdlib/scripts/check-file-is-empty.py                                   *)
(***************************************************************************)
MaxFileLen == 3

\* What the checked file may hold: blanks, newlines and a visible character.
FileChars == {" ", "\n", "e"}

\* str.strip(): the string without its leading and trailing whitespace.
strip(s) ==
    LET K == {k \in 1..Len(s) : Ch(s, k) \notin SpaceChars}
    IN IF K = {} THEN ""
       ELSE SubSeq(s, CHOOSE k \in K : \A j \in K : k <= j,
                      CHOOSE k \in K : \A j \in K : j <= k)

\* The script is started on a path; the file is missing, empty or holds text.
InitEmpty ==
    /\ argv = <<"errors.log">>
    /\ \E f \in {NoFile} \cup {File(t) : t \in StringsOf(FileChars, MaxFileLen)} :
          fs = [p \in {"errors.log"} |-> f]
    /\ fs0 = fs
    /\ pc = "exists"
    /\ open = {}
    /\ ops = <<>>
    /\ err = "none"
    /\ status = "running"
    /\ printed = <<>>
    /\ content = ""
    /\ name = ""
    /\ env = <<>>
    /\ files_with_docstrings_issues = <<>>
    /\ python = ""
    /\ launched = <<>>
    /\ visited = {}
    /\ snake = <<>>
    /\ RewriterAtRest

\* Lines 31-32: no file at the path; main returns.
PathMissing ==
    /\ pc = "exists"
    /\ ~fs[argv[1]].exists
    /\ pc' = "exited"
    /\ status' = "exit 0"
    /\ UNCHANGED <<fs, fs0, open, ops, err, argv, printed, content, name, env,
                   files_with_docstrings_issues, python, launched, visited,
                   snake, rewriter>>

\* Line 34: the file is opened for reading.
OpenPath ==
    /\ pc = "exists"
    /\ fs[argv[1]].exists
    /\ Opened("f")
    /\ pc' = "read"
    /\ UNCHANGED <<fs, fs0, err, argv, status, printed, content, name, env,
                   files_with_docstrings_issues, python, launched, visited,
                   snake, rewriter>>

\* Line 35: content = f.read().strip()
ReadStrip ==
    /\ pc = "read"
    /\ content' = strip(fs[argv[1]].content)
    /\ pc' = "test"
    /\ UNCHANGED <<fs, fs0, open, ops, err, argv, status, printed, name, env,
                   files_with_docstrings_issues, python, launched, visited,
                   snake, rewriter>>

\* Lines 36-41: the stripped text is not empty; it is printed to stderr
\* after a heading and the script exits with status 1.  Leaving the with
\* block closes the file.
ReportNotEmpty ==
    /\ pc = "test"
    /\ content # ""
    /\ printed' = Append(printed,
                         <<"stderr", "error: '" \o argv[1] \o "' is not empty:\n"
                                         \o content \o "\n">>)
    /\ Closed("f")
    /\ status' = "exit 1"
    /\ pc' = "exited"
    /\ UNCHANGED <<fs, fs0, err, argv, content, name, env,
                   files_with_docstrings_issues, python, launched, visited,
                   snake, rewriter>>

\* Line 36, the test fails: the with block ends, main returns.
ReturnEmpty ==
    /\ pc = "test"
    /\ content = ""
    /\ Closed("f")
    /\ status' = "exit 0"
    /\ pc' = "exited"
    /\ UNCHANGED <<fs, fs0, err, argv, printed, content, name, env,
                   files_with_docstrings_issues, python, launched, visited,
                   snake, rewriter>>

NextEmpty ==
    \/ PathMissing
    \/ OpenPath
    \/ ReadStrip
    \/ ReportNotEmpty
    \/ ReturnEmpty

SpecEmpty == InitEmpty /\ [][NextEmpty]_vars

(***************************************************************************)
(* C12.  The script exits successfully exactly when the file at the path   *)
(* is missing or empty; when the file exists and is not empty, its         *)
(* contents are printed to stderr and the exit status is 1.                *)
(***************************************************************************)
C12_NonEmptyFileFails ==
    pc = "exited" =>
        LET f == fs[argv[1]]
        IN IF ~f.exists \/ f.content = ""
           THEN status = "exit 0" /\ printed = <<>>
           ELSE /\ status = "exit 1"
                /\ Len(printed) = 1
                /\ printed[1][1] = "stderr"

(***************************************************************************)
(* stdlib/scripts/check-docstrings.py                                      *)
(*                                                                         *)
(* Each `mojo doc` subprocess is run to its end and yields what it wrote   *)
(* to stderr and its return code; the model takes mojo to be launchable.   *)
(***************************************************************************)
MaxFiles == 2

DocFiles == {"a.mojo", "b.mojo"}

\* What one `mojo doc` run may yield.
DocStderr == {"", "warning: missing docstring\n"}
DocReturnCodes == {0, 1}

\* Faulty variant: only what was written to stderr counts.
has_issue_stderr_only(result) == result.stderr # ""

\* Line 29: if result.stderr or result.returncode != 0
has_issue(result) == result.stderr # "" \/ result.returncode # 0

InitDocs ==
    /\ argv \in BoundedSeq(DocFiles, MaxFiles)
    /\ pc = "run"
    /\ status = "running"
    /\ files_with_docstrings_issues = <<>>
    /\ launched = <<>>
    /\ printed = <<>>
    /\ fs = <<>>
    /\ fs0 = <<>>
    /\ open = {}
    /\ ops = <<>>
    /\ err = "none"
    /\ content = ""
    /\ name = ""
    /\ env = <<>>
    /\ python = ""
    /\ visited = {}
    /\ snake = <<>>
    /\ RewriterAtRest

\* Lines 25-31, one turn of the loop: the next file is analysed, and kept
\* with its stderr when the run shows an issue.
RunDoc ==
    /\ pc = "run"
    /\ Len(launched) < Len(argv)
    /\ LET file == argv[Len(launched) + 1]
       IN \E e \in DocStderr, rc \in DocReturnCodes :
             LET result == [stderr |-> e, returncode |-> rc]
             IN /\ launched' = Append(launched, [cmd |-> <<"mojo", "doc", file>>,
                                                 result |-> result])
                /\ files_with_docstrings_issues' =
                       IF has_issue(result)
                       THEN Append(files_with_docstrings_issues, <<file, e>>)
                       ELSE files_with_docstrings_issues
    /\ UNCHANGED <<pc, status, printed, argv, fs, fs0, open, ops, err, content,
                   name, env, python, visited, snake, rewriter>>

\* Line 25: the arguments are exhausted.
EndRuns ==
    /\ pc = "run"
    /\ Len(launched) = Len(argv)
    /\ pc' = "report"
    /\ UNCHANGED <<status, printed, argv, launched, files_with_docstrings_issues,
                   fs, fs0, open, ops, err, content, name, env, python,
                   visited, snake, rewriter>>

\* Lines 33-35, one turn of the loop: the file and its decoded stderr.
ReportIssue ==
    /\ pc = "report"
    /\ Len(printed) < 2 * Len(files_with_docstrings_issues)
    /\ LET issue == files_with_docstrings_issues[(Len(printed) \div 2) + 1]
       IN printed' = printed \o
                       << <<"stdout", "Docstring issue in " \o issue[1] \o ": \n">>,
                          <<"stdout", issue[2] \o "\n">> >>
    /\ UNCHANGED <<pc, status, argv, launched, files_with_docstrings_issues,
                   fs, fs0, open, ops, err, content, name, env, python,
                   visited, snake, rewriter>>

\* Lines 37-38: sys.exit(1) when the list is not empty; else main returns.
ExitDocs ==
    /\ pc = "report"
    /\ Len(printed) = 2 * Len(files_with_docstrings_issues)
    /\ status' = IF files_with_docstrings_issues # <<>> THEN "exit 1" ELSE "exit 0"
    /\ pc' = "exited"
    /\ UNCHANGED <<printed, argv, launched, files_with_docstrings_issues,
                   fs, fs0, open, ops, err, content, name, env, python,
                   visited, snake, rewriter>>

NextDocs ==
    \/ RunDoc
    \/ EndRuns
    \/ ReportIssue
    \/ ExitDocs

SpecDocs == InitDocs /\ [][NextDocs]_vars

\* The run wrote to stderr or returned a non-zero code.
Failed(run) == run.result.stderr # "" \/ run.result.returncode # 0

\* The files named by the headings printed so far, as headings.
Headings == [j \in 1..(Len(printed) \div 2) |-> printed[2 * j - 1][2]]

Modules == {"numpy", "matplotlib", "torch"}

\* How subprocess.check_call may end: pip's exit status, or the interpreter
\* could not be started after all.
PipOutcomes == {"exit 0", "exit 1", "exit 2", "OSError"}

InitInstall ==
    /\ name \in Modules
    /\ env \in [importable : BOOLEAN, python3 : BOOLEAN, python : BOOLEAN]
    /\ pc = "find_spec"
    /\ status = "running"
    /\ err = "none"
    /\ python = ""
    /\ launched = <<>>
    /\ printed = <<>>
    /\ argv = <<>>
    /\ fs = <<>>
    /\ fs0 = <<>>
    /\ open = {}
    /\ ops = <<>>
    /\ content = ""
    /\ files_with_docstrings_issues = <<>>
    /\ visited = {}
    /\ snake = <<>>
    /\ RewriterAtRest

\* Lines 27-28: the module is importable; the function returns.
FoundSpec ==
    /\ pc = "find_spec"
    /\ env.importable
    /\ status' = "returned"
    /\ pc' = "exited"
    /\ UNCHANGED <<name, env, err, python, launched, printed, argv, fs, fs0,
                   open, ops, content, files_with_docstrings_issues, visited,
                   snake, rewriter>>

\* Lines 27-31: it is not; the function says so and enters the try block.
NotFound ==
    /\ pc = "find_spec"
    /\ ~env.importable
    /\ printed' = Append(printed, <<"stdout", name \o " not found, installing...\n">>)
    /\ pc' = "which"
    /\ UNCHANGED <<name, env, status, err, python, launched, argv, fs, fs0,
                   open, ops, content, files_with_docstrings_issues, visited,
                   snake, rewriter>>

\* Lines 32-33
ChoosePython3 ==
    /\ pc = "which"
    /\ env.python3
    /\ python' = "python3"
    /\ pc' = "pip"
    /\ UNCHANGED <<name, env, status, err, launched, printed, argv, fs, fs0,
                   open, ops, content, files_with_docstrings_issues, visited,
                   snake, rewriter>>

\* Lines 34-35
ChoosePython ==
    /\ pc = "which"
    /\ ~env.python3
    /\ env.python
    /\ python' = "python"
    /\ pc' = "pip"
    /\ UNCHANGED <<name, env, status, err, launched, printed, argv, fs, fs0,
                   open, ops, content, files_with_docstrings_issues, visited,
                   snake, rewriter>>

\* Lines 36-37: neither is on PATH; ImportError is raised inside the try.
NoPython ==
    /\ pc = "which"
    /\ ~env.python3
    /\ ~env.python
    /\ err' = "ImportError"
    /\ pc' = "except"
    /\ UNCHANGED <<name, env, status, python, launched, printed, argv, fs, fs0,
                   open, ops, content, files_with_docstrings_issues, visited,
                   snake, rewriter>>

\* Lines 38-39: pip is run through the chosen interpreter.  check_call
\* returns when pip exits with 0 and raises otherwise.
Pip ==
    /\ pc = "pip"
    /\ \E outcome \in PipOutcomes :
          /\ launched' = Append(launched,
                                [cmd |-> <<python, "-m", "pip", "install", name>>,
                                 outcome |-> outcome])
          /\ IF outcome = "exit 0"
             THEN status' = "returned" /\ pc' = "exited" /\ err' = err
             ELSE /\ err' = IF outcome = "OSError" THEN "OSError"
                                                   ELSE "CalledProcessError"
                  /\ pc' = "except"
                  /\ status' = status
    /\ UNCHANGED <<name, env, python, printed, argv, fs, fs0,
                   open, ops, content, files_with_docstrings_issues, visited,
                   snake, rewriter>>

\* Faulty variant: the handler catches ImportError only.
Except_import_only ==
    /\ pc = "except"
    /\ err' = err
    /\ status' = "raised"
    /\ pc' = "exited"
    /\ UNCHANGED <<name, env, python, launched, printed, argv, fs, fs0,
                   open, ops, content, files_with_docstrings_issues, visited,
                   snake, rewriter>>

\* Lines 40-41: the bare except catches whatever was raised in the try and
\* raises ImportError in its place.
Except ==
    /\ pc = "except"
    /\ err' = "ImportError"
    /\ status' = "raised"
    /\ pc' = "exited"
    /\ UNCHANGED <<name, env, python, launched, printed, argv, fs, fs0,
                   open, ops, content, files_with_docstrings_issues, visited,
                   snake, rewriter>>

NextInstall ==
    \/ FoundSpec
    \/ NotFound
    \/ ChoosePython3
    \/ ChoosePython
    \/ NoPython
    \/ Pip
    \/ Except

SpecInstall == InitInstall /\ [][NextInstall]_vars

(***************************************************************************)
(* C17.  When the module is importable the function returns and no         *)
(* subprocess is launched.  Otherwise pip is launched once, through        *)
(* python3 when it is on PATH and else through python; the function        *)
(* returns only when pip exited with 0, and when no interpreter is on      *)
(* PATH or pip did not succeed the caller gets an ImportError.             *)
(***************************************************************************)
C17_ImportErrorOrInstalled ==
    /\ env.importable => launched = <<>> /\ err = "none" /\ status # "raised"
    /\ Len(launched) <= 1
    /\ launched # <<>> =>
          /\ ~env.importable
          /\ env.python3 \/ env.python
          /\ launched[1].cmd = <<IF env.python3 THEN "python3" ELSE "python",
                                 "-m", "pip", "install", name>>
    /\ pc = "exited" =>
          /\ status \in {"returned", "raised"}
          /\ ~env.importable /\ (env.python3 \/ env.python) => Len(launched) = 1
          /\ status = "returned" <=>
                (env.importable \/ (launched # <<>> /\ launched[1].outcome = "exit 0"))
          /\ status = "returned" => err = "none"
          /\ status = "raised" => err = "ImportError"

\* python3 is not on PATH but python is; pip exits with 1 and the caller
\* gets an ImportError.
C17_Witness ==
    /\ pc = "exited"
    /\ ~env.python3
    /\ launched # <<>>
    /\ launched[1].cmd[1] = "python"
    /\ launched[1].outcome = "exit 1"
    /\ status = "raised"
    /\ err = "ImportError"

(***************************************************************************)
(* stdlib/snaker.py                                                        *)
(***************************************************************************)
UpperStr == "ABCDEFGHIJKLMNOPQRSTUVWXYZ"
LowerStr == "abcdefghijklmnopqrstuvwxyz"

\* The character classes [A-Z], [a-z] and [0-9].
UpperChars == {Ch(UpperStr, k) : k \in 1..Len(UpperStr)}
LowerChars == {Ch(LowerStr, k) : k \in 1..Len(LowerStr)}
DigitChars == {"0", "1", "2", "3", "4", "5", "6", "7", "8", "9"}

RECURSIVE lower(_)
\* str.lower() on ASCII text.
lower(s) ==
    IF s = "" THEN ""
    ELSE LET c == Ch(s, 1)
         IN (IF c \in UpperChars
             THEN Ch(LowerStr, CHOOSE k \in 1..Len(UpperStr) : Ch(UpperStr, k) = c)
             ELSE c) \o lower(SubSeq(s, 2, Len(s)))

RECURSIVE sub_word(_, _)
\* Line 6, re.sub from index p on: any character but a newline, then an
\* upper-case letter and the longest run of lower-case letters (at least
\* one), gets an underscore after its first character; the search goes on
\* after the match.
sub_word(s, p) ==
    IF p > Len(s) THEN ""
    ELSE IF /\ Ch(s, p) # NL
            /\ p + 2 <= Len(s)
            /\ Ch(s, p + 1) \in UpperChars
            /\ Ch(s, p + 2) \in LowerChars
         THEN LET e == RunEnd(s, p + 2, LowerChars)
              IN Ch(s, p) \o "_" \o SubSeq(s, p + 1, e) \o sub_word(s, e + 1)
         ELSE Ch(s, p) \o sub_word(s, p + 1)

RECURSIVE sub_upper(_, _)
\* Line 7, re.sub from index p on: a lower-case letter or digit followed by
\* an upper-case letter gets an underscore between the two.
sub_upper(s, p) ==
    IF p > Len(s) THEN ""
    ELSE IF /\ Ch(s, p) \in LowerChars \cup DigitChars
            /\ p + 1 <= Len(s)
            /\ Ch(s, p + 1) \in UpperChars
         THEN Ch(s, p) \o "_" \o Ch(s, p + 1) \o sub_upper(s, p + 2)
         ELSE Ch(s, p) \o sub_upper(s, p + 1)

\* Faulty variant: the result is not lower-cased.
camel_to_snake_no_lower(n) == sub_upper(sub_word(n, 1), 1)

\* Lines 4-7
camel_to_snake(n) == lower(sub_upper(sub_word(n, 1), 1))

\* Line 14, what the pattern's body accepts between two word boundaries: a
\* word of letters only that starts in lower case and has an upper-case
\* letter.
is_camel_case(w) ==
    /\ w # ""
    /\ Ch(w, 1) \in LowerChars
    /\ \A k \in 1..Len(w) : Ch(w, k) \in LowerChars \cup UpperChars
    /\ \E k \in 1..Len(w) : Ch(w, k) \in UpperChars

\* Line 14, the lookahead: from index k to the end of the text there is no
\* double quote and the single quotes pair up.
outside_string(s, k) ==
    /\ \A j \in k..Len(s) : Ch(s, j) # "\""
    /\ Cardinality({j \in k..Len(s) : Ch(s, j) = "'"}) % 2 = 0

RECURSIVE camel_case_sub(_, _)
\* Line 21, camel_case_pattern.sub(replace, content) from index p on, p not
\* inside a word: every word the pattern matches is replaced by its
\* camel_to_snake.
camel_case_sub(s, p) ==
    IF p > Len(s) THEN ""
    ELSE IF Ch(s, p) \in WordChars
         THEN LET e == RunEnd(s, p, WordChars)
                  w == SubSeq(s, p, e)
              IN (IF is_camel_case(w) /\ outside_string(s, e + 1)
                  THEN camel_to_snake(w)
                  ELSE w) \o camel_case_sub(s, e + 1)
         ELSE Ch(s, p) \o camel_case_sub(s, p + 1)

\* str.endswith
endswith(s, suffix) ==
    /\ Len(s) >= Len(suffix)
    /\ SubSeq(s, Len(s) - Len(suffix) + 1, Len(s)) = suffix

MaxIdLen == 3

\* The characters identifiers are drawn from: a lower-case letter, an
\* upper-case letter, a digit and the underscore.
IdChars == {"a", "B", "1", "_"}

\* os.path.join
join(root, file) == root \o "/" \o file

\* What os.walk(".") yields, top down: each directory with its files.
Tree == << <<".", {"a.mojo", "b.py", "notes.mojo.txt"}>>,
           <<"./pkg", {"c.mojo", "mojo"}>> >>

TreePaths == UNION {{join(Tree[d][1], f) : f \in Tree[d][2]} : d \in 1..Len(Tree)}

\* Every file mentions the identifier n; c.mojo also inside a string.
TreeText(p, n) ==
    IF p = "./a.mojo" THEN "var " \o n \o " = 1\n"
    ELSE IF p = "./pkg/c.mojo" THEN "print('" \o n \o "')\nlet " \o n \o " = 2\n"
    ELSE n \o " = 1\n"

\* camel_to_snake is to be applied to an identifier and to its result, and
\* the script run in a directory whose files mention the identifier.
InitSnake ==
    /\ name \in StringsOf(IdChars, MaxIdLen)
    /\ fs = [p \in TreePaths |-> File(TreeText(p, name))]
    /\ fs0 = fs
    /\ argv = <<".">>
    /\ pc = "call"
    /\ snake = <<>>
    /\ visited = {}
    /\ content = ""
    /\ open = {}
    /\ ops = <<>>
    /\ err = "none"
    /\ status = "running"
    /\ printed = <<>>
    /\ env = <<>>
    /\ files_with_docstrings_issues = <<>>
    /\ python = ""
    /\ launched = <<>>
    /\ RewriterAtRest

\* Lines 4-7: camel_to_snake is applied to name, then to what it returned.
CallSnake ==
    /\ pc = "call"
    /\ Len(snake) < 2
    /\ snake' = Append(snake, camel_to_snake(IF snake = <<>> THEN name
                                             ELSE snake[Len(snake)]))
    /\ UNCHANGED <<pc, name, fs, fs0, argv, visited, content, open, ops, err,
                   status, printed, env, files_with_docstrings_issues, python,
                   launched, rewriter>>

\* Lines 32-33: convert_directory(".")
StartWalk ==
    /\ pc = "call"
    /\ Len(snake) = 2
    /\ pc' = "walk"
    /\ UNCHANGED <<snake, name, fs, fs0, argv, visited, content, open, ops,
                   err, status, printed, env, files_with_docstrings_issues,
                   python, launched, rewriter>>

\* The directory os.walk is in: the first with a file not yet yielded
\* (0 when there is none).
WalkDir ==
    LET D == {d \in 1..Len(Tree) :
                 \E f \in Tree[d][2] : join(Tree[d][1], f) \notin visited}
    IN IF D = {} THEN 0 ELSE CHOOSE d \in D : \A c \in D : d <= c

\* Lines 27-30 and 10: the next file of the directory, in whatever order
\* the directory lists its files; a file whose name ends in ".mojo" is
\* handed to convert_file, which opens it for reading.
NextFile ==
    /\ pc = "walk"
    /\ WalkDir # 0
    /\ \E file \in Tree[WalkDir][2] :
          LET p == join(Tree[WalkDir][1], file)
          IN /\ p \notin visited
             /\ IF endswith(file, ".mojo")
                THEN /\ open' = open \cup {p}
                     /\ ops' = Append(ops, <<"open", p, "r">>)
                     /\ pc' = "read"
                     /\ visited' = visited
                ELSE /\ visited' = visited \cup {p}
                     /\ UNCHANGED <<pc, open, ops>>
    /\ UNCHANGED <<snake, name, fs, fs0, argv, content, err, status, printed,
                   env, files_with_docstrings_issues, python, launched,
                   rewriter>>

\* Lines 10-21: the text is read, the file closed, and the camelCase words
\* outside string literals replaced.
ReadSource ==
    /\ pc = "read"
    /\ \E p \in open :
          /\ content' = camel_case_sub(fs[p].content, 1)
          /\ ops' = Append(ops, <<"close", p, "r">>)
    /\ pc' = "open_w"
    /\ UNCHANGED <<open, snake, name, fs, fs0, argv, visited, err, status,
                   printed, env, files_with_docstrings_issues, python,
                   launched, rewriter>>

\* Line 23: opening the file for writing empties it.
TruncateSource ==
    /\ pc = "open_w"
    /\ \E p \in open :
          /\ fs' = [fs EXCEPT ![p] = File("")]
          /\ ops' = Append(ops, <<"open", p, "w">>)
    /\ pc' = "write"
    /\ UNCHANGED <<open, content, snake, name, fs0, argv, visited, err, status,
                   printed, env, files_with_docstrings_issues, python,
                   launched, rewriter>>

\* Line 24: the new text is written and the file closed; the walk goes on.
WriteSource ==
    /\ pc = "write"
    /\ \E p \in open :
          /\ fs' = [fs EXCEPT ![p] = File(content)]
          /\ ops' = Append(ops, <<"close", p, "w">>)
          /\ visited' = visited \cup {p}
          /\ open' = open \ {p}
    /\ content' = ""
    /\ pc' = "walk"
    /\ UNCHANGED <<snake, name, fs0, argv, err, status, printed, env,
                   files_with_docstrings_issues, python, launched, rewriter>>

\* Line 27: os.walk is exhausted; the script ends.
EndWalk ==
    /\ pc = "walk"
    /\ WalkDir = 0
    /\ pc' = "exited"
    /\ status' = "exit 0"
    /\ UNCHANGED <<snake, name, fs, fs0, argv, visited, content, open, ops,
                   err, printed, env, files_with_docstrings_issues, python,
                   launched, rewriter>>

NextSnake ==
    \/ CallSnake
    \/ StartWalk
    \/ NextFile
    \/ ReadSource
    \/ TruncateSource
    \/ WriteSource
    \/ EndWalk

SpecSnake == InitSnake /\ [][NextSnake]_vars

\* The file's name: the path after its last "/".
Basename(p) ==
    LET K == {k \in 1..Len(p) : Ch(p, k) = "/"}
    IN SubSeq(p, (CHOOSE k \in K : \A j \in K : j <= k) + 1, Len(p))

\* The paths opened for writing so far.
OpenedForWriting == {ops[k][2] : k \in {j \in 1..Len(ops) : ops[j][3] = "w"}}

(***************************************************************************)
(* C18.  What camel_to_snake returns has no upper-case letter, and         *)
(* applying it to its own result returns that result.  convert_directory   *)
(* opens for writing only files whose name ends in ".mojo"; every other    *)
(* file under the directory keeps its text, and when the walk is over      *)
(* every file whose name ends in ".mojo" has been rewritten.               *)
(***************************************************************************)
C18_SnakeIdempotentMojoOnly ==
    /\ \A k \in 1..Len(snake) :
          \A j \in 1..Len(snake[k]) : Ch(snake[k], j) \notin UpperChars
    /\ Len(snake) = 2 => snake[2] = snake[1]
    /\ \A p \in OpenedForWriting : endswith(Basename(p), ".mojo")
    /\ \A p \in DOMAIN fs :
          ~endswith(Basename(p), ".mojo") => fs[p] = fs0[p]
    /\ pc = "exited" =>
          \A p \in DOMAIN fs :
             endswith(Basename(p), ".mojo") => p \in OpenedForWriting

\* A camelCase identifier: camel_to_snake changed it, the .mojo files were
\* rewritten with it outside string literals, and notes.mojo.txt still
\* holds the identifier as it was.
C18_Witness ==
    /\ pc = "exited"
    /\ name = "aBa"
    /\ snake = <<"a_ba", "a_ba">>
    /\ fs["./a.mojo"].content = "var a_ba = 1\n"
    /\ fs["./pkg/c.mojo"].content = "print('aBa')\nlet a_ba = 2\n"
    /\ fs["./notes.mojo.txt"].content = "aBa = 1\n"

====
